---- MODULE Spec2Model ----
(***************************************************************************)
(* Model of the metadata facade of tag_editor.py (class TagIO): one audio  *)
(* file on disk, one TagIO handle opened on it, and the facade operations  *)
(* __init__, get, set, save, get_cover_info, has_cover, clear_cover and    *)
(* set_cover; of the session controller (class Tui) that drives the        *)
(* facade from the event loop, one input event per step; and of the file   *)
(* browser (class FileBrowser) over directories that change under it.      *)
(*                                                                         *)
(* A tag structure (what mutagen keeps in memory for a file, and what a    *)
(* save() writes back as a whole) is a record                              *)
(*    hdr    - the file has a tag header (tags is not None)                *)
(*    text   - for every catalog field its list of values, as the          *)
(*             simplified ("easy") view shows them                         *)
(*    custom - a field outside the catalog is present                      *)
(*    pics   - the embedded pictures (FLAC picture blocks, MP4 covr,       *)
(*             Ogg metadata_block_picture, ID3 APIC frames), in file order *)
(*    legacy - Ogg only: the coverart/coverartmime pair is present         *)
(* A handle holds two such structures, both read from the file when it is  *)
(* opened: audio = MutagenFile(path, easy=True) and raw = MutagenFile(path)*)
(***************************************************************************)
EXTENDS Integers, Sequences, FiniteSets, TLC

VARIABLES kind, disk, h, last, tui, running, browser, fs

vars == <<kind, disk, h, last, tui, running, browser, fs>>

\* The variables of the session controller: the Tui object, and where
\* Tui.loop is ("no": not started; "running"; "quit": left at the 'q' key;
\* "interrupted": left at KeyboardInterrupt; "crashed": left by an exception
\* no handler caught).
tuiVars == <<tui, running>>

\* The variables of the file browser: the FileBrowser object and the
\* directories it lists.
browserVars == <<browser, fs>>

(***************************************************************************)
(* Container kinds, as MutagenFile detects them.  "None": no type matches  *)
(* (MutagenFile returns None).  "Corrupt": a type matches by extension or  *)
(* magic but its loader raises.                                            *)
(***************************************************************************)
SupportedKinds == {"FLAC", "MP4", "Ogg", "ID3"}

Kinds == SupportedKinds \cup {"None", "Corrupt"}

\* The keys of the catalog, in its order.
DEFAULT_FIELDS ==
    <<"title", "artist", "album", "albumartist", "tracknumber", "discnumber",
      "date", "genre", "comment">>

\* The catalog fields the model tracks, one of each behaviour: "comment" is
\* plain text where the simplified view has the key and is no key of the ID3
\* view; "tracknumber" is plain text except in the MP4 view, which keeps it
\* as an integer.  The other fields are absent from the files modelled.
Fields == {DEFAULT_FIELDS[5], DEFAULT_FIELDS[9]}

\* Values a caller passes to set(); "" clears.
SetValues == {"", "07"}

FRONT_COVER == 3

\* Lengths in bytes of the images used (the old embedded one, a .png, a .bmp
\* and a file whose extension names no image type).
OldLen == 9

PngLen == 2

BmpLen == 4

OtherLen == 6

Pic(t, m, n) == [type |-> t, mime |-> m, size |-> n]

OldPic == Pic(FRONT_COVER, "image/jpeg", OldLen)

NoText == [f \in Fields |-> <<>>]

NoTags == [hdr |-> FALSE, text |-> NoText, custom |-> FALSE, pics |-> <<>>,
           legacy |-> FALSE]

\* The handle before __init__ has run.
NoHandle == [open |-> FALSE, loaded |-> FALSE, audio |-> NoTags, raw |-> NoTags]

\* The record of the last facade call: its name, arguments and what it
\* returned (ret: "ok", "fail", "none" for a call that returns nothing,
\* "raise" for an exception that leaves the call), the writes the file system
\* refused during it, and whether the call before it was the same operation
\* with the same result (again).
NoCall == [op |-> "init", key |-> "", val |-> "", img |-> "", ret |-> "none",
           err |-> "", rawFail |-> FALSE, audioFail |-> FALSE, wfail |-> FALSE,
           again |-> FALSE]

Call(op, ret, err) == [NoCall EXCEPT !.op = op, !.ret = ret, !.err = err]

----------------------------------------------------------------------------
(***************************************************************************)
(* What the simplified view of each kind does with a key and a value.      *)
(***************************************************************************)

\* self.audio[key] = [value] and self.audio[key] raise for these ("unsupported
\* keys for this format"): the simplified ID3 view (EasyID3) has no "comment"
\* key.
Rejects(k, key) == k = "ID3" /\ key = "comment"

\* The value the simplified view shows after self.audio[key] = [value]: the
\* MP4 view (EasyMP4) keeps track and disc numbers as integers, every other
\* text key is kept as given.
Stored(k, key, value) ==
    IF k = "MP4" /\ key = "tracknumber" /\ value = "07" THEN "7" ELSE value

\* len(self.audio): the number of keys of the simplified view.  A Vorbis
\* comment (FLAC, Ogg) shows every key, cover keys included; the ID3 and MP4
\* simplified views show only their registered text keys.
NumKeys(k, t) ==
    Cardinality({f \in Fields : t.text[f] # <<>>})
    + (IF k \in {"FLAC", "Ogg"} /\ t.custom THEN 1 ELSE 0)
    + (IF k = "Ogg" /\ t.pics # <<>> THEN 1 ELSE 0)
    + (IF k = "Ogg" /\ t.legacy THEN 1 ELSE 0)

\* `if not self.audio`: the handle is None, or it is a mapping with no key (a
\* mutagen FileType has the length of its keys and no truth value of its own).
Falsy(k, hd) == ~hd.loaded \/ NumKeys(k, hd.audio) = 0

is_supported(hd) == hd.loaded

normalize_value(v) == IF v.isNone THEN <<>> ELSE v.list

\* self.audio.get(key): None when the key is absent or not a key of the view.
AudioGet(k, t, key) ==
    IF Rejects(k, key) \/ t.text[key] = <<>>
    THEN [isNone |-> TRUE, list |-> <<>>]
    ELSE [isNone |-> FALSE, list |-> t.text[key]]

get(k, hd, key) ==
    IF Falsy(k, hd) THEN <<>> ELSE normalize_value(AudioGet(k, hd.audio, key))

\* A fault variant of set: "" is stored as an empty value instead of removing
\* the key.
set_storingEmpty(k, hd, key, value) ==
    IF Falsy(k, hd) \/ Rejects(k, key) THEN hd
    ELSE [hd EXCEPT !.audio.text[key] = <<Stored(k, key, value)>>]

\* The handle after set(key, value).
set(k, hd, key, value) ==
    IF Falsy(k, hd) THEN hd
    ELSE IF value = ""
         THEN IF ~AudioGet(k, hd.audio, key).isNone
              THEN [hd EXCEPT !.audio.text[key] = <<>>]
              ELSE hd
         ELSE IF Rejects(k, key) THEN hd
              ELSE [hd EXCEPT !.audio.text[key] = <<Stored(k, key, value)>>]

----------------------------------------------------------------------------
(***************************************************************************)
(* The files the model starts from.                                        *)
(***************************************************************************)
InitVals(k, f) ==
    IF k = "ID3" /\ f = "comment" THEN {<<>>}
    ELSE IF k = "MP4" /\ f = "tracknumber" THEN {<<>>, <<"7">>}
    ELSE {<<>>, <<"x", "07">>}

InitPics(k) ==
    {<<>>, <<OldPic>>, <<OldPic, OldPic>>}

InitDisks(k) ==
    IF k \notin SupportedKinds THEN {NoTags}
    ELSE {t \in [hdr : BOOLEAN, text : [Fields -> {<<>>, <<"7">>, <<"x", "07">>}],
                 custom : BOOLEAN, pics : InitPics(k), legacy : BOOLEAN] :
            /\ \A f \in Fields : t.text[f] \in InitVals(k, f)
            /\ t.legacy => k = "Ogg" /\ Len(t.pics) < 2
            /\ k = "Ogg" => t.hdr
            /\ ~t.hdr => /\ t.text = NoText
                         /\ ~t.custom
                         /\ k # "FLAC" => t.pics = <<>>}

\* What get_cover_info returns: None, or the description of a picture.
NoCover == [present |-> FALSE, mime |-> "", size |-> 0]

CoverInfo(m, n) == [present |-> TRUE, mime |-> m, size |-> n]

\* A FileBrowser on a directory with nothing to list, and that directory
\* tree.
NoBrowser == [root |-> "/", entries |-> <<>>, selection |-> 0]

NoFiles == [top |-> {}, sub |-> [state |-> "missing", names |-> {}]]

\* Tui.__init__: no file open, an empty record (read with get(key, "")),
\* the cursor on the first field, clean, the browser pane focused.
NoPath == ""

BlankTags == [f \in Fields |-> ""]

NewTui ==
    [current_path |-> NoPath, tags |-> BlankTags, cursor_field |-> 0,
     status_msg |-> "Press [h] for help", dirty |-> FALSE,
     focus |-> "browser", last_error |-> "", cover_info |-> NoCover]

Init ==
    /\ kind \in Kinds
    /\ disk \in InitDisks(kind)
    /\ h = NoHandle
    /\ last = NoCall
    /\ tui = NewTui
    /\ running = "no"
    /\ browser = NoBrowser
    /\ fs = NoFiles

----------------------------------------------------------------------------
\* The handle TagIO(path) builds on a file of kind k holding tags d: both
\* views are read from the file.
OpenHandle(k, d) ==
    [open |-> TRUE, loaded |-> k # "None",
     audio |-> IF k = "None" THEN NoTags ELSE d,
     raw |-> IF k = "None" THEN NoTags ELSE d]

\* What a call returns to the action that models it: the handle and the file
\* after it, and its result.
Outcome(hd, d, ret, err) == [h |-> hd, disk |-> d, ret |-> ret, err |-> err]

\* A fault variant of save: the simplified view is written with the catalog
\* fields only.
save_catalogOnly(k, hd, d, rawFails, audioFails) ==
    IF Falsy(k, hd) THEN Outcome(hd, d, "fail", "Unsupported file format")
    ELSE IF audioFails
         THEN Outcome(hd, IF rawFails THEN d ELSE hd.raw, "fail", "io")
         ELSE Outcome(hd, [hd.audio EXCEPT !.custom = FALSE], "ok", "")

\* TagIO.save: the raw view is written first and its failure is swallowed,
\* then the simplified view; rawFails and audioFails are the file system
\* refusing the first and the second write.  Each write replaces the file's
\* whole tag structure by the view's.
save(k, hd, d, rawFails, audioFails) ==
    IF Falsy(k, hd) THEN Outcome(hd, d, "fail", "Unsupported file format")
    ELSE LET afterRaw == IF rawFails THEN d ELSE hd.raw
         IN  IF audioFails THEN Outcome(hd, afterRaw, "fail", "io")
             ELSE Outcome(hd, hd.audio, "ok", "")

----------------------------------------------------------------------------
(***************************************************************************)
(* Cover art.                                                              *)
(***************************************************************************)
ImageFiles == {"cover.png", "cover.bmp", "cover.dat", "missing.png"}

\* open(image_path, 'rb') succeeds.
Readable(img) == img # "missing.png"

ImageLen(img) ==
    IF img = "cover.png" THEN PngLen
    ELSE IF img = "cover.bmp" THEN BmpLen ELSE OtherLen

\* mimetypes.guess_type(image_path)[0], "" for None.
GuessType(img) ==
    IF img \in {"cover.png", "missing.png"} THEN "image/png"
    ELSE IF img = "cover.bmp" THEN "image/bmp" ELSE ""

\* The MIME type set_cover uses: the guess, or image/jpeg when the guess is
\* None or no image type.
CoverMime(img) == IF GuessType(img) = "" THEN "image/jpeg" ELSE GuessType(img)

\* Bytes of Picture.write() around the image data: eight 32-bit fields, the
\* MIME string and the description 'cover'.
PictureBlockFields == 32

DescLen == 5

BlockLen(p) == PictureBlockFields + Len(p.mime) + DescLen + p.size

\* TagIO.get_cover_info, read from the handle's raw view.
get_cover_info(k, hd) ==
    LET r == hd.raw IN
    IF ~hd.loaded THEN NoCover
    ELSE IF k = "FLAC"
    THEN IF r.pics # <<>> THEN CoverInfo(r.pics[1].mime, r.pics[1].size) ELSE NoCover
    ELSE IF k = "MP4"
    THEN IF r.hdr /\ r.pics # <<>>
         THEN CoverInfo(IF r.pics[1].mime = "image/jpeg" THEN "image/jpeg"
                        ELSE "image/png", r.pics[1].size)
         ELSE NoCover
    ELSE IF k = "Ogg"
    THEN IF NumKeys(k, r) = 0 THEN NoCover
         ELSE IF r.pics # <<>> THEN CoverInfo("", BlockLen(r.pics[1]))
         ELSE IF r.legacy THEN CoverInfo(OldPic.mime, OldPic.size)
         ELSE NoCover
    ELSE IF r.hdr /\ r.pics # <<>>
         THEN CoverInfo(r.pics[1].mime, r.pics[1].size)
         ELSE NoCover

has_cover(k, hd) == get_cover_info(k, hd).present

\* The raw view after clear_cover has edited it (FLAC, MP4, Ogg).
ClearedRaw(k, r) ==
    IF k = "FLAC" THEN [r EXCEPT !.pics = <<>>]
    ELSE IF k = "MP4" THEN [r EXCEPT !.hdr = TRUE, !.pics = <<>>]
    ELSE [r EXCEPT !.pics = <<>>, !.legacy = FALSE]

\* clear_cover and set_cover write the file (rather than return early).
ClearWrites(k, hd, d) == hd.loaded /\ (k \in {"FLAC", "MP4", "Ogg"} \/ d.hdr)

\* A fault variant of clear_cover: a file with no ID3 header is an error
\* instead of a successful no-op.
clear_cover_noHeaderFails(k, hd, d, wfail) ==
    IF ~hd.loaded
    THEN Outcome(hd, d, "fail", "Unsupported format for cover removal")
    ELSE IF k \in {"FLAC", "MP4", "Ogg"}
    THEN LET r == ClearedRaw(k, hd.raw)
         IN  IF wfail THEN Outcome([hd EXCEPT !.raw = r], d, "fail", "io")
             ELSE Outcome([hd EXCEPT !.raw = r], r, "ok", "")
    ELSE IF ~d.hdr \/ wfail THEN Outcome(hd, d, "fail", "io")
    ELSE Outcome(hd, [d EXCEPT !.pics = <<>>], "ok", "")

\* TagIO.clear_cover.  FLAC, MP4 and Ogg edit the handle's raw view and save
\* it; every other loaded file goes through a fresh ID3(self.path), which
\* reads and writes the file and leaves the handle's views alone.  wfail is
\* the file system refusing the write.
clear_cover(k, hd, d, wfail) ==
    IF ~hd.loaded
    THEN Outcome(hd, d, "fail", "Unsupported format for cover removal")
    ELSE IF k \in {"FLAC", "MP4", "Ogg"}
    THEN LET r == ClearedRaw(k, hd.raw)
         IN  IF wfail THEN Outcome([hd EXCEPT !.raw = r], d, "fail", "io")
             ELSE Outcome([hd EXCEPT !.raw = r], r, "ok", "")
    ELSE IF ~d.hdr THEN Outcome(hd, d, "ok", "")
    ELSE IF wfail THEN Outcome(hd, d, "fail", "io")
    ELSE Outcome(hd, [d EXCEPT !.pics = <<>>], "ok", "")

\* The picture set_cover builds: front cover, with the MIME type the
\* container can hold (MP4 knows JPEG and PNG only).
NewPic(k, img) ==
    Pic(FRONT_COVER,
        IF k = "MP4" /\ CoverMime(img) # "image/png" THEN "image/jpeg"
        ELSE CoverMime(img),
        ImageLen(img))

\* A fault variant of CoveredRaw: the Ogg branch leaves the legacy key pair
\* in place.
CoveredRaw_keepingLegacy(k, r, img) ==
    IF k = "FLAC" THEN [r EXCEPT !.pics = <<NewPic(k, img)>>]
    ELSE [r EXCEPT !.hdr = TRUE, !.pics = <<NewPic(k, img)>>]

\* The raw view after set_cover has edited it (FLAC, MP4, Ogg).
CoveredRaw(k, r, img) ==
    IF k = "FLAC" THEN [r EXCEPT !.pics = <<NewPic(k, img)>>]
    ELSE IF k = "MP4" THEN [r EXCEPT !.hdr = TRUE, !.pics = <<NewPic(k, img)>>]
    ELSE [r EXCEPT !.hdr = TRUE, !.pics = <<NewPic(k, img)>>, !.legacy = FALSE]

\* A fault variant of set_cover: the pictures of the raw view are dropped
\* before the image file is read.
set_cover_clearingFirst(k, hd, d, img, wfail) ==
    IF ~Readable(img)
    THEN Outcome([hd EXCEPT !.raw.pics = <<>>], d, "fail", "io")
    ELSE IF hd.loaded /\ k \in {"FLAC", "MP4", "Ogg"}
    THEN LET r == CoveredRaw(k, hd.raw, img)
         IN  IF wfail THEN Outcome([hd EXCEPT !.raw = r], d, "fail", "io")
             ELSE Outcome([hd EXCEPT !.raw = r], r, "ok", "")
    ELSE IF wfail
         THEN Outcome(hd, d, "fail", "Unsupported format for cover setting")
         ELSE Outcome(hd, [d EXCEPT !.hdr = TRUE, !.pics = <<NewPic(k, img)>>],
                      "ok", "")

\* A fault variant of set_cover: the ID3 branch adds the new picture frame
\* without deleting the frames already there.
set_cover_keepingOld(k, hd, d, img, wfail) ==
    IF ~Readable(img) THEN Outcome(hd, d, "fail", "io")
    ELSE IF hd.loaded /\ k \in {"FLAC", "MP4", "Ogg"}
    THEN LET r == CoveredRaw(k, hd.raw, img)
         IN  IF wfail THEN Outcome([hd EXCEPT !.raw = r], d, "fail", "io")
             ELSE Outcome([hd EXCEPT !.raw = r], r, "ok", "")
    ELSE IF wfail
         THEN Outcome(hd, d, "fail", "Unsupported format for cover setting")
         ELSE Outcome(hd, [d EXCEPT !.hdr = TRUE,
                                    !.pics = Append(d.pics, NewPic(k, img))],
                      "ok", "")

\* TagIO.set_cover.  The last branch (the ID3 fallback) is taken by every
\* handle whose raw view is not FLAC, MP4 or Ogg, a handle with raw = None
\* included; a failure inside it is swallowed and reported as unsupported.
set_cover(k, hd, d, img, wfail) ==
    IF ~Readable(img) THEN Outcome(hd, d, "fail", "io")
    ELSE IF hd.loaded /\ k \in {"FLAC", "MP4", "Ogg"}
    THEN LET r == CoveredRaw(k, hd.raw, img)
         IN  IF wfail THEN Outcome([hd EXCEPT !.raw = r], d, "fail", "io")
             ELSE Outcome([hd EXCEPT !.raw = r], r, "ok", "")
    ELSE IF wfail
         THEN Outcome(hd, d, "fail", "Unsupported format for cover setting")
         ELSE Outcome(hd, [d EXCEPT !.hdr = TRUE, !.pics = <<NewPic(k, img)>>],
                      "ok", "")

----------------------------------------------------------------------------
(***************************************************************************)
(* The actions: one facade call each, on the one handle.                   *)
(***************************************************************************)
Record(op, ret, err) ==
    [Call(op, ret, err) EXCEPT !.again = (last.op = op /\ last.ret = ret)]

\* TagIO.__init__: a loader that raises leaves no handle.
Open ==
    /\ ~h.open
    /\ IF kind = "Corrupt"
       THEN /\ h' = h
            /\ last' = Record("open", "raise", "load")
       ELSE /\ h' = OpenHandle(kind, disk)
            /\ last' = Record("open", "none", "")
    /\ UNCHANGED <<kind, disk, tuiVars, browserVars>>

SetField ==
    /\ h.open
    /\ \E key \in Fields, value \in SetValues :
         /\ h' = set(kind, h, key, value)
         /\ last' = [Record("set", "none", "") EXCEPT !.key = key, !.val = value]
    /\ UNCHANGED <<kind, disk, tuiVars, browserVars>>

Save ==
    /\ h.open
    /\ \E rawFails \in BOOLEAN, audioFails \in BOOLEAN :
         LET o == save(kind, h, disk, rawFails, audioFails)
             w == ~Falsy(kind, h)
         IN  /\ disk' = o.disk
             /\ last' = [Record("save", o.ret, o.err)
                           EXCEPT !.rawFail = w /\ rawFails,
                                  !.audioFail = w /\ audioFails]
    /\ UNCHANGED <<kind, h, tuiVars, browserVars>>

ClearCover ==
    /\ h.open
    /\ \E wfail \in BOOLEAN :
         LET o == clear_cover(kind, h, disk, wfail)
         IN  /\ h' = o.h
             /\ disk' = o.disk
             /\ last' = [Record("clear_cover", o.ret, o.err)
                           EXCEPT !.wfail = wfail /\ ClearWrites(kind, h, disk)]
    /\ UNCHANGED <<kind, tuiVars, browserVars>>

SetCover ==
    /\ h.open
    /\ \E img \in ImageFiles, wfail \in BOOLEAN :
         LET o == set_cover(kind, h, disk, img, wfail)
         IN  /\ h' = o.h
             /\ disk' = o.disk
             /\ last' = [Record("set_cover", o.ret, o.err)
                           EXCEPT !.img = img, !.wfail = wfail /\ Readable(img)]
    /\ UNCHANGED <<kind, tuiVars, browserVars>>

Next == Open \/ SetField \/ Save \/ ClearCover \/ SetCover

Spec == Init /\ [][Next]_vars

----------------------------------------------------------------------------
(***************************************************************************)
(* Properties.  A property of one call is an action property: `last` is    *)
(* the call before the step, last' the call the step makes.                *)
(***************************************************************************)

\* The file holds an embedded cover.
CoverOnDisk(d) == d.pics # <<>> \/ d.legacy

\* GetField(f) on a fresh Open of the file as it is on disk.
FreshGet(d, f) == get(kind, OpenHandle(kind, d), f)

\* C1 as stated: for every kind and every catalog field f, SetField(f, v),
\* then a successful Save, then a fresh Open and GetField(f) gives [v] for a
\* non-empty v and [] for v = "".
C1_RoundTripEveryField ==
    [][(last.op = "set" /\ last'.op = "save" /\ last'.ret = "ok")
         => FreshGet(disk', last.key)
              = IF last.val = "" THEN <<>> ELSE <<last.val>>]_vars

\* C1 as amended: the same round trip gives [] for v = "" on every field, and
\* gives [v] for a non-empty v on every field whose key the kind's simplified
\* view accepts and whose value it stores as given.
C1_RoundTrip ==
    [][(last.op = "set" /\ last'.op = "save" /\ last'.ret = "ok")
         => /\ last.val = "" => FreshGet(disk', last.key) = <<>>
            /\ (/\ last.val # ""
                /\ ~Rejects(kind, last.key)
                /\ Stored(kind, last.key, last.val) = last.val)
                 => FreshGet(disk', last.key) = <<last.val>>]_vars

\* A successful Save after SetField("comment", "07") on a file that did not
\* hold that value: a fresh Open reads it back.
C1_Witness ==
    /\ last.op = "save" /\ last.ret = "ok"
    /\ h.raw.text["comment"] # <<"07">>
    /\ h.audio.text["comment"] = <<"07">>
    /\ FreshGet(disk, "comment") = <<"07">>

\* C2: SetField changes only the handle's in-memory simplified view: f is
\* removed for "", replaced by the single value otherwise, and the file is
\* not written.  Stated for the keys the kind's simplified view accepts.
C2_SetFieldReplaces ==
    [][(last'.op = "set" /\ h.loaded /\ ~Rejects(kind, last'.key))
         => /\ disk' = disk
            /\ h'.raw = h.raw
            /\ h'.audio =
                 [h.audio EXCEPT !.text[last'.key] =
                    IF last'.val = "" THEN <<>>
                    ELSE <<Stored(kind, last'.key, last'.val)>>]]_vars

\* C3: a field outside the catalog that is in the file before a successful
\* Save is in the file after it.
C3_CustomPreserved ==
    [][(last'.op = "save" /\ last'.ret = "ok" /\ disk.custom) => disk'.custom]_vars

\* A successful Save that wrote changed catalog fields to a file holding a
\* custom field.
C3_Witness ==
    /\ last.op = "save" /\ last.ret = "ok"
    /\ disk.custom
    /\ disk.text # h.raw.text

\* C4: Open on a non-audio or unrecognised file never raises; on the handle
\* it gives, SetField and Save return the UnsupportedFormat status and leave
\* the file as it is.
C4_UnsupportedSafe ==
    [][/\ last'.op = "open" => last'.ret # "raise"
       /\ (h.open /\ ~h.loaded /\ last'.op \in {"set", "save"})
            => /\ last'.ret = "fail"
               /\ last'.err = "Unsupported file format"
               /\ disk' = disk]_vars

\* C5: on an Unsupported handle SetCover and ClearCover do not return Ok and
\* do not write the file.
C5_UnsupportedCoverNoop ==
    [][(h.open /\ ~h.loaded /\ last'.op \in {"set_cover", "clear_cover"})
         => last'.ret # "ok" /\ disk' = disk]_vars

\* C6: a Save one of whose writes fails does not return success and leaves
\* the file as it was before the call.
C6_FailedSaveLeavesFile ==
    [][(last'.op = "save" /\ (last'.rawFail \/ last'.audioFail))
         => last'.ret # "ok" /\ disk' = disk]_vars

\* C7: Save writes the raw view first and the simplified view second (the
\* file ends as the last view written), and fails if either write fails.
C7_SaveOrderAndFailure ==
    [][(last'.op = "save" /\ ~Falsy(kind, h))
         => /\ (~last'.rawFail /\ last'.audioFail) => disk' = h.raw
            /\ (~last'.rawFail /\ ~last'.audioFail) => disk' = h.audio
            /\ (last'.rawFail \/ last'.audioFail) => last'.ret = "fail"]_vars

\* C8: after a successful SetCover(image) on a handle of any of the four
\* families, CoverInfo on that handle gives the image's inferred MIME type
\* and its length.
C8_CoverRoundTrip ==
    [][(last'.op = "set_cover" /\ last'.ret = "ok" /\ h.loaded)
         => get_cover_info(kind, h')
              = CoverInfo(CoverMime(last'.img), ImageLen(last'.img))]_vars

\* C9: after ClearCover returns Ok on a handle whose file held a cover,
\* CoverInfo on that handle is absent and HasCover is false.
C9_ClearedCoverAbsent ==
    [][(last'.op = "clear_cover" /\ last'.ret = "ok" /\ CoverOnDisk(disk))
         => /\ ~get_cover_info(kind, h').present
            /\ ~has_cover(kind, h')]_vars

C11_NoHeaderNoop ==
    [][(last'.op = "clear_cover" /\ h.loaded /\ ~disk.hdr
          /\ ~CoverOnDisk(disk) /\ ~last'.wfail)
         => /\ last'.ret = "ok"
            /\ disk' = disk]_vars

\* C12: after a successful SetCover on a supported file, whatever calls came
\* before it, the file holds exactly one embedded cover, of picture type 3,
\* made from the image of this call; the covers held before are gone.
C12_SingleFrontCover ==
    [][(last'.op = "set_cover" /\ last'.ret = "ok" /\ h.loaded)
         => /\ Len(disk'.pics) = 1
            /\ disk'.pics[1].type = FRONT_COVER
            /\ disk'.pics[1].size = ImageLen(last'.img)
            /\ disk'.pics[1] = NewPic(kind, last'.img)
            /\ ~disk'.legacy]_vars

\* The second of two consecutive successful SetCover calls on an ID3-tagged
\* file: the file holds the one cover of the second call.
C12_Witness ==
    /\ last.op = "set_cover" /\ last.again /\ last.ret = "ok"
    /\ h.loaded /\ kind = "ID3"
    /\ disk.pics = <<NewPic(kind, last.img)>>

\* C13: for Ogg Vorbis/Opus, a successful SetCover leaves the cover under the
\* preferred key only, with no legacy key in the file or in the handle; and
\* CoverInfo reports the preferred key's picture whenever that key is
\* present, the legacy pair's only when it is absent.
C13_OggPreferredKey ==
    /\ [][(last'.op = "set_cover" /\ last'.ret = "ok" /\ kind = "Ogg")
            => /\ disk'.pics = <<NewPic(kind, last'.img)>>
               /\ ~disk'.legacy
               /\ ~h'.raw.legacy]_vars
    /\ [](kind = "Ogg" /\ h.loaded
            => /\ h.raw.pics # <<>>
                 => get_cover_info(kind, h)
                      = CoverInfo("", BlockLen(h.raw.pics[1]))
               /\ (h.raw.pics = <<>> /\ h.raw.legacy)
                 => get_cover_info(kind, h)
                      = CoverInfo(OldPic.mime, OldPic.size))

\* A successful SetCover on an Ogg file that held both the preferred key and
\* the legacy pair: the legacy pair is gone and CoverInfo reports the new
\* picture block.
C13_Witness ==
    /\ kind = "Ogg" /\ last.op = "set_cover" /\ last.ret = "ok"
    /\ ~last.again /\ h.loaded
    /\ h.audio.legacy /\ h.audio.pics # <<>>
    /\ ~disk.legacy
    /\ get_cover_info(kind, h) = CoverInfo("", BlockLen(NewPic(kind, last.img)))

\* C14: SetCover with an image path that does not exist or cannot be read
\* reports an error, and neither the handle's in-memory state nor the file
\* changes.
C14_MissingSourceImage ==
    [][(last'.op = "set_cover" /\ ~Readable(last'.img))
         => /\ last'.ret = "fail"
            /\ last'.err # ""
            /\ h' = h
            /\ disk' = disk]_vars

\* SetCover with a missing image on a handle of a supported file that holds a
\* cover: the call failed and the cover is still in the file and the handle.
C14_Witness ==
    /\ last.op = "set_cover" /\ last.img = "missing.png" /\ last.ret = "fail"
    /\ h.loaded /\ h.raw.pics # <<>> /\ disk.pics # <<>>

----------------------------------------------------------------------------
(***************************************************************************)
(* The session controller (class Tui).  There is one audio file, at        *)
(* TrackPath; every handler opens its own TagIO handle on it and drops it  *)
(* when it returns, so h and last stay as they are while the loop runs.    *)
(* The record Tui.tags is kept for the tracked fields; the other catalog   *)
(* fields are blank in every file modelled and are never edited to a       *)
(* non-blank value.                                                        *)
(***************************************************************************)
TrackPath == "track"

Paths == {NoPath, TrackPath}

\* What prompt_input returns when the prompt is left with ESC (None).
Cancelled == "<esc>"

\* Text typed at the prompt of edit_field and confirmed with Enter.
EditValues == {"", "07"}

\* Answers to the quit prompt: the exact word, another word, ESC.
QuitAnswers == {"yes", "Yes", Cancelled}

\* Images the picker of the 'c' key can return (IMAGE_EXTS, existing files).
PickableImages == {"cover.png"}

\* ", ".join(v for v in values if v)
RECURSIVE human_join(_)
human_join(values) ==
    IF values = <<>> THEN ""
    ELSE LET rest == human_join(Tail(values))
         IN  IF Head(values) = "" THEN rest
             ELSE IF rest = "" THEN Head(values)
             ELSE Head(values) \o ", " \o rest

\* What a handler leaves behind: the Tui object, the file, and the result of
\* the facade call it made ("none": no call; "raise": an exception the
\* handler caught; "uncaught": an exception that left the handler).
Handled(t, d, ret, err) == [tui |-> t, disk |-> d, ret |-> ret, err |-> err]

\* Tui.load_current.
load_current(t, k, d) ==
    IF t.current_path = NoPath
    THEN [t EXCEPT !.tags = BlankTags, !.cover_info = NoCover]
    ELSE IF k = "Corrupt"
    THEN [t EXCEPT !.tags = BlankTags, !.cover_info = NoCover,
                   !.last_error = "load", !.status_msg = "Error: " \o "load"]
    ELSE LET io == OpenHandle(k, d)
         IN  IF ~is_supported(io)
             THEN [t EXCEPT !.status_msg = "Unsupported file",
                            !.tags = BlankTags, !.cover_info = NoCover]
             ELSE [t EXCEPT !.tags = [f \in Fields |-> human_join(get(k, io, f))],
                            !.cover_info = get_cover_info(k, io),
                            !.dirty = FALSE, !.last_error = ""]

\* The loop of save_current over the catalog, from its i-th field on.  For a
\* field the model does not track the call is set(key, "") on a file that
\* does not hold the key, which changes nothing.
RECURSIVE SetAll(_, _, _, _)
SetAll(k, hd, tags, i) ==
    IF i > Len(DEFAULT_FIELDS) THEN hd
    ELSE LET key == DEFAULT_FIELDS[i]
         IN  SetAll(k, IF key \in Fields THEN set(k, hd, key, tags[key]) ELSE hd,
                    tags, i + 1)

\* A fault variant of save_current: the session is marked clean whatever
\* the facade's save returned.
save_current_alwaysClean(t, k, d, rawFails, audioFails) ==
    IF t.current_path = NoPath THEN Handled(t, d, "none", "")
    ELSE IF k = "Corrupt"
    THEN Handled([t EXCEPT !.status_msg = "Save failed: " \o "load"], d,
                 "raise", "load")
    ELSE LET io == OpenHandle(k, d)
         IN  IF ~is_supported(io)
             THEN Handled([t EXCEPT !.status_msg = "Unsupported file"], d,
                          "unsupported", "")
             ELSE LET o == save(k, SetAll(k, io, t.tags, 1), d,
                                rawFails, audioFails)
                  IN  Handled([t EXCEPT !.status_msg =
                                          IF o.ret = "ok" THEN "Saved"
                                          ELSE "Save failed: " \o o.err,
                                        !.dirty = FALSE],
                              o.disk, o.ret, o.err)

\* Tui.save_current.
save_current(t, k, d, rawFails, audioFails) ==
    IF t.current_path = NoPath THEN Handled(t, d, "none", "")
    ELSE IF k = "Corrupt"
    THEN Handled([t EXCEPT !.status_msg = "Save failed: " \o "load"], d,
                 "raise", "load")
    ELSE LET io == OpenHandle(k, d)
         IN  IF ~is_supported(io)
             THEN Handled([t EXCEPT !.status_msg = "Unsupported file"], d,
                          "unsupported", "")
             ELSE LET o == save(k, SetAll(k, io, t.tags, 1), d,
                                rawFails, audioFails)
                  IN  IF o.ret = "ok"
                      THEN Handled([t EXCEPT !.status_msg = "Saved",
                                             !.dirty = FALSE],
                                   o.disk, "ok", "")
                      ELSE Handled([t EXCEPT !.status_msg =
                                               "Save failed: " \o o.err],
                                   o.disk, "fail", o.err)

\* A fault variant of edit_field: every confirmed prompt marks the session
\* dirty, the value changed or not.
edit_field_alwaysDirty(t, idx, new_val) ==
    IF idx < 0 \/ idx >= Len(DEFAULT_FIELDS) THEN t
    ELSE LET key == DEFAULT_FIELDS[idx + 1]
         IN  IF new_val # Cancelled
             THEN [t EXCEPT !.tags = [f \in Fields |-> IF f = key THEN new_val
                                                       ELSE t.tags[f]],
                            !.dirty = TRUE]
             ELSE t

\* Tui.edit_field, with what prompt_input returned.
edit_field(t, idx, new_val) ==
    IF idx < 0 \/ idx >= Len(DEFAULT_FIELDS) THEN t
    ELSE LET key == DEFAULT_FIELDS[idx + 1]
             value == IF key \in Fields THEN t.tags[key] ELSE ""
         IN  IF new_val # Cancelled /\ new_val # value
             THEN [t EXCEPT !.tags[key] = new_val, !.dirty = TRUE]
             ELSE t

\* The handler of the 'C' key in Tui.loop: TagIO(...) is called outside any
\* try, so what it raises leaves the handler.
on_clear_cover(t, k, d, wfail) ==
    IF t.current_path = NoPath THEN Handled(t, d, "none", "")
    ELSE IF k = "Corrupt" THEN Handled(t, d, "uncaught", "load")
    ELSE LET o == clear_cover(k, OpenHandle(k, d), d, wfail)
         IN  Handled([t EXCEPT !.status_msg =
                                 IF o.ret = "ok" THEN "Cover cleared"
                                 ELSE "Cover clear failed: " \o o.err,
                               !.cover_info = get_cover_info(k, o.h)],
                     o.disk, o.ret, o.err)

\* A fault variant of on_set_cover: the record is pushed to the file and
\* saved before the cover is set.
on_set_cover_savingEdits(t, k, d, img, wfail) ==
    IF img = NoPath \/ t.current_path = NoPath THEN Handled(t, d, "none", "")
    ELSE IF k = "Corrupt" THEN Handled(t, d, "uncaught", "load")
    ELSE LET s == save(k, SetAll(k, OpenHandle(k, d), t.tags, 1), d,
                       FALSE, FALSE)
             o == set_cover(k, OpenHandle(k, s.disk), s.disk, img, wfail)
         IN  Handled([t EXCEPT !.status_msg =
                                 IF o.ret = "ok" THEN "Cover set"
                                 ELSE "Cover set failed: " \o o.err,
                               !.cover_info = get_cover_info(k, o.h)],
                     o.disk, o.ret, o.err)

\* The handler of the 'c' key in Tui.loop, with what the image picker
\* returned (NoPath: the picker was left with no choice).
on_set_cover(t, k, d, img, wfail) ==
    IF img = NoPath \/ t.current_path = NoPath THEN Handled(t, d, "none", "")
    ELSE IF k = "Corrupt" THEN Handled(t, d, "uncaught", "load")
    ELSE LET o == set_cover(k, OpenHandle(k, d), d, img, wfail)
         IN  Handled([t EXCEPT !.status_msg =
                                 IF o.ret = "ok" THEN "Cover set"
                                 ELSE "Cover set failed: " \o o.err,
                               !.cover_info = get_cover_info(k, o.h)],
                     o.disk, o.ret, o.err)

\* The 'o' key and Enter in the browser pane, with the path the picker or
\* browser.enter() returned (NoPath: nothing picked, or a directory entered).
open_path(t, k, d, path) ==
    IF path = NoPath THEN t
    ELSE [load_current([t EXCEPT !.current_path = path], k, d)
            EXCEPT !.focus = "tags"]

----------------------------------------------------------------------------
(***************************************************************************)
(* Tui.loop: one action per key read by getch(), with the input the        *)
(* handler asks for (a picked path, a typed value, an answer) and the      *)
(* writes the file system refuses as parameters.                           *)
(*                                                                         *)
(* The files of a session hold the "comment" field or not and, except the   *)
(* ID3-tagged ones (whose simplified view has no "comment" key), no other  *)
(* catalog field; the session edits "comment", and leaves the prompt of    *)
(* every other field blank or with ESC.                                    *)
(***************************************************************************)
EditedField == DEFAULT_FIELDS[9]

TuiDisks(k) ==
    {d \in InitDisks(k) :
       /\ k # "ID3" => \A f \in Fields \ {EditedField} : d.text[f] = <<>>
       /\ Len(d.pics) < 2
       /\ ~d.legacy}

TuiInit ==
    /\ kind \in Kinds
    /\ disk \in TuiDisks(kind)
    /\ h = NoHandle
    /\ last = NoCall
    /\ tui = NewTui
    /\ running = "running"
    /\ browser = NoBrowser
    /\ fs = NoFiles

\* A handler that returned o: the loop goes on unless an exception left it.
Handle(o) ==
    /\ tui' = o.tui
    /\ disk' = o.disk
    /\ running' = IF o.ret = "uncaught" THEN "crashed" ELSE "running"
    /\ UNCHANGED <<kind, h, last, browserVars>>

KeyOpenWith(picked) ==
    /\ running = "running"
    /\ Handle(Handled(open_path(tui, kind, disk, picked), disk, "none", ""))

KeyOpen == \E picked \in Paths : KeyOpenWith(picked)

\* 'q': `if self.dirty: ans = prompt_input(...); if ans != 'yes': continue`,
\* then break.
KeyQuitWith(ans) ==
    /\ running = "running"
    /\ running' = IF tui.dirty /\ ans # "yes" THEN "running" ELSE "quit"
    /\ UNCHANGED <<kind, disk, h, last, tui, browserVars>>

KeyQuit == \E ans \in QuitAnswers : KeyQuitWith(ans)

KeyHelp ==
    /\ running = "running"
    /\ Handle(Handled(tui, disk, "none", ""))

KeyUp ==
    /\ running = "running"
    /\ Handle(Handled(IF tui.focus = "tags"
                      THEN [tui EXCEPT !.cursor_field =
                              (tui.cursor_field - 1) % Len(DEFAULT_FIELDS)]
                      ELSE tui,
                      disk, "none", ""))

KeyDown ==
    /\ running = "running"
    /\ Handle(Handled(IF tui.focus = "tags"
                      THEN [tui EXCEPT !.cursor_field =
                              (tui.cursor_field + 1) % Len(DEFAULT_FIELDS)]
                      ELSE tui,
                      disk, "none", ""))

KeyBackspace ==
    /\ running = "running"
    /\ Handle(Handled(IF tui.focus = "browser"
                      THEN load_current([tui EXCEPT !.current_path = NoPath],
                                        kind, disk)
                      ELSE tui,
                      disk, "none", ""))

\* Enter or 'e' in the browser pane, with what browser.enter() returned.
KeyEnterBrowser(path) ==
    /\ running = "running"
    /\ tui.focus = "browser"
    /\ Handle(Handled(open_path(tui, kind, disk, path), disk, "none", ""))

\* Enter or 'e' in the tags pane, with what prompt_input returned.
KeyEnterTags(new_val) ==
    /\ running = "running"
    /\ tui.focus = "tags"
    /\ DEFAULT_FIELDS[tui.cursor_field + 1] # EditedField
         => new_val \in {"", Cancelled}
    /\ Handle(Handled(edit_field(tui, tui.cursor_field, new_val),
                      disk, "none", ""))

KeyEnter ==
    IF tui.focus = "browser"
    THEN \E path \in Paths : KeyEnterBrowser(path)
    ELSE \E new_val \in EditValues \cup {Cancelled} : KeyEnterTags(new_val)

KeyTab ==
    /\ running = "running"
    /\ Handle(Handled([tui EXCEPT !.focus = IF tui.focus = "browser"
                                            THEN "tags" ELSE "browser"],
                      disk, "none", ""))

KeySaveWith(rawFails, audioFails) ==
    /\ running = "running"
    /\ Handle(save_current(tui, kind, disk, rawFails, audioFails))

KeySave ==
    \E rawFails \in BOOLEAN, audioFails \in BOOLEAN :
      KeySaveWith(rawFails, audioFails)

KeyReload ==
    /\ running = "running"
    /\ Handle(Handled(load_current(tui, kind, disk), disk, "none", ""))

KeyClearCoverWith(wfail) ==
    /\ running = "running"
    /\ Handle(on_clear_cover(tui, kind, disk, wfail))

KeyClearCover == \E wfail \in BOOLEAN : KeyClearCoverWith(wfail)

KeySetCoverWith(img, wfail) ==
    /\ running = "running"
    /\ Handle(on_set_cover(tui, kind, disk, img, wfail))

KeySetCover ==
    \E img \in PickableImages \cup {NoPath}, wfail \in BOOLEAN :
      KeySetCoverWith(img, wfail)

\* Ctrl-C while getch() waits: `except KeyboardInterrupt: break`.
Interrupt ==
    /\ running = "running"
    /\ running' = "interrupted"
    /\ UNCHANGED <<kind, disk, h, last, tui, browserVars>>

TuiNext ==
    \/ KeyOpen \/ KeyQuit \/ KeyHelp \/ KeyUp \/ KeyDown \/ KeyBackspace
    \/ KeyEnter \/ KeyTab \/ KeySave \/ KeyReload \/ KeyClearCover
    \/ KeySetCover \/ Interrupt

TuiSpec == TuiInit /\ [][TuiNext]_vars


----------------------------------------------------------------------------
(***************************************************************************)
(* Claims about the session controller, checked under TuiSpec.             *)
(***************************************************************************)

\* C15: no failure of a facade operation leaves a handler of the event loop
\* (open, reload, save, set cover, clear cover) as an uncaught exception:
\* the loop is never left by one.
C15_NoUncaughtFailure ==
    running # "crashed"

\* C16: editing the field under the cursor: when the prompt is confirmed
\* with a value that differs from the field's current one, the record holds
\* the new value (its other fields as before) and the session is dirty; when
\* the prompt is cancelled, or confirmed with the same value, the record,
\* the dirty flag and the file are unchanged.
C16_EditField ==
    [][\A new_val \in EditValues \cup {Cancelled} :
         KeyEnterTags(new_val)
           => LET key == DEFAULT_FIELDS[tui.cursor_field + 1]
                  value == IF key \in Fields THEN tui.tags[key] ELSE ""
              IN  /\ disk' = disk
                  /\ IF new_val # Cancelled /\ new_val # value
                     THEN /\ tui'.tags[key] = new_val
                          /\ \A f \in Fields \ {key} : tui'.tags[f] = tui.tags[f]
                          /\ tui'.dirty
                     ELSE /\ tui'.tags = tui.tags
                          /\ tui'.dirty = tui.dirty]_vars

\* An opened file whose record was edited to a value the file does not hold:
\* the session is dirty.
C16_Witness ==
    /\ running = "running" /\ tui.current_path = TrackPath
    /\ tui.dirty
    /\ tui.tags[EditedField] = "07"
    /\ disk.text[EditedField] # <<"07">>

\* The status messages save_current shows when it has not saved, each with
\* its reason.
SaveFailureMessages ==
    {"Unsupported file", "Save failed: io", "Save failed: load",
     "Save failed: Unsupported file format"}

\* C17: the 's' key.  With no file open nothing changes.  With a file open
\* the record is pushed to the file and saved: when the facade reports
\* success ("Saved") the session is clean and a fresh read of every field
\* the container accepts gives the record's value; when it reports failure,
\* or the file is unsupported, the dirty flag is as before and the status
\* message carries the reason.  The record itself is never changed.
C17_SessionSave ==
    [][\A rawFails \in BOOLEAN, audioFails \in BOOLEAN :
         KeySaveWith(rawFails, audioFails)
           => IF tui.current_path = NoPath
              THEN tui' = tui /\ disk' = disk
              ELSE /\ tui'.tags = tui.tags
                   /\ IF tui'.status_msg = "Saved"
                      THEN /\ ~tui'.dirty
                           /\ \A f \in Fields :
                                ~Rejects(kind, f)
                                  => FreshGet(disk', f)
                                       = IF tui.tags[f] = "" THEN <<>>
                                         ELSE <<Stored(kind, f, tui.tags[f])>>
                      ELSE /\ tui'.dirty = tui.dirty
                           /\ tui'.status_msg \in SaveFailureMessages
                           /\ kind = "None"
                                => tui'.status_msg = "Unsupported file"
                           /\ kind = "Corrupt"
                                => tui'.status_msg = "Save failed: load"]_vars

\* An edited record was saved: the status is "Saved", the session is clean
\* and the file holds the edited value.
C17_Witness ==
    /\ running = "running" /\ tui.current_path = TrackPath
    /\ tui.status_msg = "Saved" /\ ~tui.dirty
    /\ tui.tags[EditedField] = "07"
    /\ disk.text[EditedField] = <<"07">>

\* C18: Reload ('r') on the open file, or opening a file ('o', or Enter in
\* the browser), discards every unsaved edit: afterwards the session is not
\* dirty, and the record equals the values read from the file, joined, or is
\* blank when the file is Unsupported.  Stated for the files MutagenFile
\* loads or does not recognize.
C18_ReloadDiscardsEdits ==
    [][(/\ kind # "Corrupt"
        /\ \/ KeyReload /\ tui.current_path # NoPath
           \/ KeyOpenWith(TrackPath)
           \/ KeyEnterBrowser(TrackPath))
         => /\ ~tui'.dirty
            /\ tui'.tags = IF kind = "None" THEN BlankTags
                           ELSE [f \in Fields |-> human_join(FreshGet(disk, f))]]_vars

\* C19: while the session is dirty the event loop ends only by the quit
\* prompt answered with exactly 'yes'; any other answer, or a cancelled
\* prompt, leaves the loop running and the state as it was.  Stated for the
\* keys getch() returns: a KeyboardInterrupt, which the loop answers with
\* `break`, is not counted as an input event here.
C19_QuitNeedsYes ==
    [][(running = "running" /\ tui.dirty)
         => /\ running' \notin {"running", "interrupted"} => KeyQuitWith("yes")
            /\ \A ans \in QuitAnswers \ {"yes"} :
                 KeyQuitWith(ans) => running' = "running" /\ tui' = tui
                                       /\ disk' = disk]_vars

\* C20: the cover keys ('C' and 'c') bypass the dirty/save cycle: the record
\* and the dirty flag are as before, the text fields in the file are as
\* before (pending edits are not written), and a cover operation that
\* succeeded is in the file at once.
C20_CoverBypassesSave ==
    [][\A img \in PickableImages \cup {NoPath}, wfail \in BOOLEAN :
         /\ (KeyClearCoverWith(wfail) \/ KeySetCoverWith(img, wfail))
              => /\ tui'.tags = tui.tags
                 /\ tui'.dirty = tui.dirty
                 /\ disk'.text = disk.text
                 /\ disk'.custom = disk.custom
         /\ (/\ KeySetCoverWith(img, wfail)
             /\ img # NoPath /\ tui.current_path # NoPath
             /\ tui'.status_msg = "Cover set")
              => disk'.pics = <<NewPic(kind, img)>>
         /\ (/\ KeyClearCoverWith(wfail)
             /\ tui.current_path # NoPath
             /\ tui'.status_msg = "Cover cleared")
              => ~CoverOnDisk(disk')]_vars

\* A dirty session whose edit is not in the file, right after a cover was
\* set: the new cover is in the file, the edit is not.
C20_Witness ==
    /\ running = "running" /\ tui.current_path = TrackPath
    /\ kind \in SupportedKinds
    /\ tui.status_msg = "Cover set"
    /\ tui.dirty /\ tui.tags[EditedField] = "07"
    /\ disk.text[EditedField] # <<"07">>
    /\ disk.pics = <<NewPic(kind, "cover.png")>>

\* C21: in every session state the dirty flag is set only while a supported
\* file is loaded: dirty implies that current_path names a file the facade
\* supports.
C21_DirtyOnlyWhenLoaded ==
    tui.dirty => tui.current_path # NoPath /\ kind \in SupportedKinds

\* What load_current would put in the record for the file as it is now.
ReloadedTags(d) == [f \in Fields |-> human_join(FreshGet(d, f))]

\* C22: whenever the session is clean with a supported file loaded, the
\* record equals what a Reload would show: every field's value is the joined
\* values the file holds for it, also for a key the container rejects.
C22_CleanRecordIsFile ==
    (/\ ~tui.dirty
     /\ tui.current_path # NoPath
     /\ kind \in SupportedKinds)
      => tui.tags = ReloadedTags(disk)

\* C23: opening a supported file and saving it with no edit leaves the
\* on-disk values of every catalog field as they were, a field that holds
\* several values included.  Stated for a save of a clean session whose
\* record is the one read from the file.
C23_SaveWithoutEditKeepsValues ==
    [][\A rawFails \in BOOLEAN, audioFails \in BOOLEAN :
         (/\ KeySaveWith(rawFails, audioFails)
          /\ tui.current_path # NoPath /\ kind \in SupportedKinds
          /\ ~tui.dirty
          /\ tui.tags = ReloadedTags(disk)
          /\ tui'.status_msg = "Saved")
           => \A f \in Fields : FreshGet(disk', f) = FreshGet(disk, f)]_vars

----------------------------------------------------------------------------
\* C24: on one handle of a supported file, a successful Save right after a
\* successful cover operation does not undo it: after SetCover the file
\* still holds the new cover, after ClearCover it still holds no cover.
C24_SaveKeepsCoverChange ==
    [][(/\ h.loaded
        /\ last.op \in {"set_cover", "clear_cover"} /\ last.ret = "ok"
        /\ last'.op = "save" /\ last'.ret = "ok")
         => IF last.op = "set_cover"
            THEN disk'.pics = <<NewPic(kind, last.img)>>
            ELSE ~CoverOnDisk(disk')]_vars

----------------------------------------------------------------------------
(***************************************************************************)
(* The file browser (class FileBrowser).  The directory tree is "/" with   *)
(* one subdirectory "/sub"; what they hold changes under the browser       *)
(* between its calls.  "/sub" can also be missing (listdir raises          *)
(* FileNotFoundError, which refresh catches) or unreadable (listdir raises *)
(* PermissionError, which leaves refresh).                                 *)
(***************************************************************************)
TopDir == "/"

SubDir == "/sub"

\* The names "/" can hold: the subdirectory, two audio files and a file
\* whose extension is not in SUPPORTED_EXTS.
TopNames == {"sub", "a.mp3", "B.flac", "n.txt"}

\* The names "/sub" can hold.
SubNames == {"c.mp3"}

DirStates ==
    [state : {"ok"}, names : SUBSET SubNames]
      \cup {[state |-> "missing", names |-> {}],
            [state |-> "denied", names |-> {}]}

FsStates == [top : SUBSET TopNames, sub : DirStates]

\* os.path.isdir(os.path.join(root, name))
IsDir(f, root, name) ==
    root = TopDir /\ name = "sub" /\ f.sub.state # "missing"

\* os.path.splitext(name)[1].lower() in self.exts
ExtListed(name) == name \in {"a.mp3", "B.flac", "c.mp3"}

\* The sort key of refresh, (not n.endswith("/"), n.lower()), as the rank it
\* gives the entries of the model: the directory first, then the files by
\* lower-cased name.
SortRank(entry) ==
    CASE entry = "sub/" -> 0
      [] entry = "a.mp3" -> 1
      [] entry = "B.flac" -> 2
      [] entry = "c.mp3" -> 3

RECURSIVE Sorted(_)
Sorted(S) ==
    IF S = {} THEN <<>>
    ELSE LET m == CHOOSE e \in S : \A x \in S : SortRank(e) <= SortRank(x)
         IN  <<m>> \o Sorted(S \ {m})

\* The items refresh collects from os.listdir(root).
Items(f, root) ==
    LET names == IF root = TopDir THEN f.top ELSE f.sub.names
    IN  {IF IsDir(f, root, n) THEN n \o "/" ELSE n :
           n \in {x \in names : IsDir(f, root, x) \/ ExtListed(x)}}

Max(a, b) == IF a >= b THEN a ELSE b

\* A fault variant of refresh: the selection is not brought back into the
\* new list.
refresh_noClamp(b, f) ==
    IF b.root = SubDir /\ f.sub.state = "denied" THEN b
    ELSE [b EXCEPT !.entries =
                     IF b.root = SubDir /\ f.sub.state # "ok" THEN <<>>
                     ELSE Sorted(Items(f, b.root))]

\* FileBrowser.refresh.  An exception other than FileNotFoundError leaves it
\* before entries or selection are assigned.
refresh(b, f) ==
    IF b.root = SubDir /\ f.sub.state = "denied" THEN b
    ELSE LET items == IF b.root = SubDir /\ f.sub.state # "ok" THEN <<>>
                      ELSE Sorted(Items(f, b.root))
         IN  [b EXCEPT !.entries = items,
                       !.selection = IF b.selection >= Len(items)
                                     THEN Max(0, Len(items) - 1)
                                     ELSE b.selection]

\* FileBrowser.__init__
NewBrowser(f) ==
    refresh([root |-> TopDir, entries |-> <<>>, selection |-> 0], f)

\* FileBrowser.enter: the browser after it (what it returns is the entry's
\* path for a file, None otherwise).
enter(b, f) ==
    IF b.entries = <<>> THEN b
    ELSE LET name == b.entries[b.selection + 1]
         IN  IF name = "sub/"
             THEN refresh([b EXCEPT !.root = SubDir, !.selection = 0], f)
             ELSE b

up(b) == [b EXCEPT !.selection = (b.selection - 1) % Max(1, Len(b.entries))]

down(b) == [b EXCEPT !.selection = (b.selection + 1) % Max(1, Len(b.entries))]

\* os.path.dirname(root)
Dirname(root) == TopDir

\* FileBrowser.parent
parent(b, f) ==
    IF Dirname(b.root) # b.root
    THEN refresh([b EXCEPT !.root = Dirname(b.root), !.selection = 0], f)
    ELSE b

\* The files the picker of the 'o' key can have returned; a file may be gone
\* again when the loop handles it.
PickedFiles ==
    {[dir |-> TopDir, base |-> "a.mp3"], [dir |-> TopDir, base |-> "B.flac"],
     [dir |-> SubDir, base |-> "c.mp3"]}

\* entries.index(base), 0-based.
IndexOf(entries, base) ==
    (CHOOSE i \in 1 .. Len(entries) : entries[i] = base) - 1

\* The browser part of the 'o' key of Tui.loop.
sync_to_picked(b, f, picked) ==
    LET r == refresh([b EXCEPT !.root = picked.dir], f)
    IN  IF \E i \in 1 .. Len(r.entries) : r.entries[i] = picked.base
        THEN [r EXCEPT !.selection = IndexOf(r.entries, picked.base)]
        ELSE r

BrowserInit ==
    /\ kind = "None"
    /\ disk = NoTags
    /\ h = NoHandle
    /\ last = NoCall
    /\ tui = NewTui
    /\ running = "no"
    /\ fs \in FsStates
    /\ browser = NewBrowser(fs)

Refresh ==
    /\ browser' = refresh(browser, fs)
    /\ UNCHANGED <<kind, disk, h, last, tuiVars, fs>>

Up ==
    /\ browser' = up(browser)
    /\ UNCHANGED <<kind, disk, h, last, tuiVars, fs>>

Down ==
    /\ browser' = down(browser)
    /\ UNCHANGED <<kind, disk, h, last, tuiVars, fs>>

Enter ==
    /\ browser' = enter(browser, fs)
    /\ UNCHANGED <<kind, disk, h, last, tuiVars, fs>>

Parent ==
    /\ browser' = parent(browser, fs)
    /\ UNCHANGED <<kind, disk, h, last, tuiVars, fs>>

SyncToPicked ==
    /\ \E picked \in PickedFiles : browser' = sync_to_picked(browser, fs, picked)
    /\ UNCHANGED <<kind, disk, h, last, tuiVars, fs>>

\* Another process changes what the directories hold.
FsChange ==
    /\ fs' \in FsStates
    /\ UNCHANGED <<kind, disk, h, last, tuiVars, browser>>

BrowserNext ==
    Refresh \/ Up \/ Down \/ Enter \/ Parent \/ SyncToPicked \/ FsChange

BrowserSpec == BrowserInit /\ [][BrowserNext]_vars

\* C25: after any sequence of FileBrowser operations, with the directories
\* changing in between, 0 <= selection < max(1, number of entries); and on a
\* non-empty list up and down wrap around at the ends and undo each other.
C25_SelectionInRange ==
    /\ 0 <= browser.selection
    /\ browser.selection < Max(1, Len(browser.entries))
    /\ browser.entries # <<>>
         => /\ down(up(browser)) = browser
            /\ up(down(browser)) = browser
            /\ browser.selection = 0
                 => up(browser).selection = Len(browser.entries) - 1
            /\ browser.selection = Len(browser.entries) - 1
                 => down(browser).selection = 0
            /\ browser.selection > 0
                 => up(browser).selection = browser.selection - 1
            /\ browser.selection < Len(browser.entries) - 1
                 => down(browser).selection = browser.selection + 1

\* The browser between two refreshes of a directory that became empty
\* under it: it still lists three entries, the last one selected.
C25_Witness ==
    /\ browser.root = TopDir
    /\ Len(browser.entries) = 3
    /\ browser.selection = 2
    /\ Items(fs, TopDir) = {}

====
